---- MODULE Spec2Model ----
(***************************************************************************)
(* A model of the fake flintlock microVM server of warehouse-13/safety     *)
(* (safety.go): the in-memory record store (savedSpecs) with its           *)
(* Create/Delete/Get/List/ListStream handlers and Load, and the optional   *)
(* basic-auth interceptor installed by WithOpts.                           *)
(*                                                                         *)
(* A call is modelled in two steps, as gRPC runs it: the interceptor       *)
(* chosen by WithOpts for the call's shape sees its metadata (Intercept);  *)
(* only if it passes does the handler run on the request message.  Calls   *)
(* are served one at a time.  A Go panic in a handler (a nil pointer       *)
(* dereference) is not recovered by grpc-go: it ends the process,          *)
(* pc = "crashed".                                                         *)
(*                                                                         *)
(* Records are values: every request message is unmarshalled afresh, so    *)
(* no two held records alias one Go object.                                *)
(***************************************************************************)
EXTENDS Integers, Sequences, FiniteSets, TLC

(***************************************************************************)
(* Bounds of the model.                                                    *)
(***************************************************************************)
\* longest savedSpecs a Create or Load may produce
MaxSpecs == 2
\* how many uids uuid.NewV4 hands out in one run
MaxIssued == 2

(***************************************************************************)
(* Values.                                                                 *)
(***************************************************************************)
\* a nil *string in MicroVMSpec.Uid (the field is optional)
NilUid == -1
\* a uid string that did not come from uuid.NewV4 (a client's own choice)
ForeignUid == 0
\* a nil *string in ListMicroVMsRequest.Name
NilName == "<nil>"

Ids == {"vm1", "vm2"}
Namespaces == {"", "ns1"}
\* the rest of a spec (kernel, volumes, ...), which the server never reads:
\* each id comes with a payload of its own
PayloadOf(id) == IF id = "vm1" THEN "p1" ELSE "p2"
\* names a List request may carry: unset, empty, or an id
QueryNames == {NilName, "", "vm1"}

\* the uids uuid.NewV4 has returned so far are 1..n
IssuedUids(n) == 1..n
\* uid strings a client can write down: its own, or ones the server returned
KnownUids(n) == {ForeignUid} \cup IssuedUids(n)

\* types.MicroVMSpec: Id, Namespace, Uid and the rest of the message (payload)
MicroVMSpec(id, namespace, uid, payload) ==
    [id |-> id, namespace |-> namespace, uid |-> uid, payload |-> payload]

\* the records Load seeds the store with: two that share a client's uid, one
\* whose Uid was left unset, and one under the uid the server returned last
LoadSpecs(n) ==
    {MicroVMSpec("vm1", "ns1", ForeignUid, "p1"), MicroVMSpec("vm2", "ns1", ForeignUid, "p2"),
     MicroVMSpec("vm1", "ns1", NilUid, "p1")}
    \cup {MicroVMSpec("vm1", "ns1", u, "p1") : u \in IssuedUids(n) \cap {n}}

\* the specs a CreateMicroVMRequest carries: the Uid unset, or set by the client
RequestSpecs ==
    {MicroVMSpec(i, ns, u, PayloadOf(i)) :
        i \in Ids, ns \in Namespaces, u \in {NilUid, ForeignUid}}

\* types.MicroVM as the handlers build it: Version 0, the spec, a status state
\* ("PENDING" is the zero value of MicroVMStatus.State)
MicroVM(spec, state) == [version |-> 0, spec |-> spec, state |-> state]

SeqsUpTo(S, n) == UNION {[1..k -> S] : k \in 0..n}

(***************************************************************************)
(* The auth gate.                                                          *)
(***************************************************************************)
\* the tokens a server is started with: none, "a", "ab"
Secrets == {<<>>, <<97>>, <<97, 98>>}

\* the base64 alphabet of base64.StdEncoding, as character codes
B64Char(i) ==
    IF i < 26 THEN 65 + i
    ELSE IF i < 52 THEN 97 + (i - 26)
    ELSE IF i < 62 THEN 48 + (i - 52)
    ELSE IF i = 62 THEN 43
    ELSE 47
\* '='
B64Pad == 61

\* base64.StdEncoding.EncodeToString: 3 bytes to 4 characters, padded with '='
RECURSIVE EncodeToString(_)
EncodeToString(b) ==
    IF Len(b) = 0 THEN <<>>
    ELSE IF Len(b) = 1 THEN
        LET v == b[1] * 65536
        IN  <<B64Char(v \div 262144), B64Char((v \div 4096) % 64), B64Pad, B64Pad>>
    ELSE IF Len(b) = 2 THEN
        LET v == b[1] * 65536 + b[2] * 256
        IN  <<B64Char(v \div 262144), B64Char((v \div 4096) % 64),
              B64Char((v \div 64) % 64), B64Pad>>
    ELSE
        LET v == b[1] * 65536 + b[2] * 256 + b[3]
        IN  <<B64Char(v \div 262144), B64Char((v \div 4096) % 64),
              B64Char((v \div 64) % 64), B64Char(v % 64)>>
            \o EncodeToString(SubSeq(b, 4, Len(b)))

\* a validateBasicAuthToken that compares the client's token with the raw secret
validateRawToken(clientToken, serverToken) ==
    clientToken = serverToken

\* validateBasicAuthToken: nil (TRUE) iff the client's token is the encoded secret
validateBasicAuthToken(clientToken, serverToken) ==
    clientToken = EncodeToString(serverToken)

\* The "authorization" metadata of a call: absent, a value without a space
\* ("bad"), or "<scheme> <token>"
NoMD == [kind |-> "absent", scheme |-> "", token |-> <<>>]
BadMD == [kind |-> "bad", scheme |-> "", token |-> <<>>]
SchemeMD(scheme, token) == [kind |-> "pair", scheme |-> scheme, token |-> token]
Schemes == {"basic", "Basic", "bearer"}
\* the tokens a client may send: a secret raw, a secret encoded, or nothing
Credentials == Secrets \cup {EncodeToString(s) : s \in Secrets}
\* the encoded secrets also travel under "Basic" and under another scheme
Metadata ==
    {NoMD, BadMD} \cup {SchemeMD("basic", t) : t \in Credentials}
    \cup {SchemeMD(sc, EncodeToString(s)) : sc \in Schemes, s \in Secrets \ {<<>>}}

\* strings.EqualFold on the scheme names of the model
EqualFold(a, b) ==
    LET lower(s) == IF s = "Basic" THEN "basic" ELSE s
    IN  lower(a) = lower(b)

\* an extraction that takes the token of any scheme
AuthFromMDAnyScheme(md, expectedScheme) ==
    IF md.kind = "absent" THEN [err |-> TRUE, token |-> <<>>]
    ELSE IF md.kind = "bad" THEN [err |-> TRUE, token |-> <<>>]
    ELSE [err |-> FALSE, token |-> md.token]

\* grpc_auth.AuthFromMD(ctx, "basic"): the token after the scheme, or an error
AuthFromMD(md, expectedScheme) ==
    IF md.kind = "absent" THEN [err |-> TRUE, token |-> <<>>]
    ELSE IF md.kind = "bad" THEN [err |-> TRUE, token |-> <<>>]
    ELSE IF ~EqualFold(md.scheme, expectedScheme) THEN [err |-> TRUE, token |-> <<>>]
    ELSE [err |-> FALSE, token |-> md.token]

\* a basicAuthFunc that answers a failed extraction with the Unauthenticated status
basicAuthFuncOneKind(setServerToken, md) ==
    LET t == AuthFromMD(md, "basic")
    IN  IF t.err THEN "unauthenticated"
        ELSE IF ~validateBasicAuthToken(t.token, setServerToken) THEN "unauthenticated"
        ELSE "pass"

\* basicAuthFunc: "pass", a plain wrapped error, or a status of code Unauthenticated
basicAuthFunc(setServerToken, md) ==
    LET t == AuthFromMD(md, "basic")
    IN  IF t.err THEN "extract_error"
        ELSE IF ~validateBasicAuthToken(t.token, setServerToken) THEN "unauthenticated"
        ELSE "pass"

\* a unary chain that runs the auth function whatever the token is
UnaryAlwaysAuth(token, md) == basicAuthFunc(token, md)

\* the unary interceptor WithOpts installs: the auth function when a token is
\* set, else grpc_prometheus.UnaryServerInterceptor, which lets every call through
UnaryInterceptor(token, md) ==
    IF token # <<>> THEN basicAuthFunc(token, md) ELSE "pass"

\* a WithOpts that installs no stream interceptor
StreamUnguarded(token, md) == "pass"

\* the stream interceptor WithOpts installs: the auth function when a token is
\* set, else grpc_prometheus.StreamServerInterceptor
StreamInterceptor(token, md) ==
    IF token # <<>> THEN basicAuthFunc(token, md) ELSE "pass"

\* the call shapes: unary (Create, Delete, Get, List) and server-streaming
\* (ListMicroVMsStream)
Shapes == {"unary", "stream"}

\* WithOpts: the options of the server, as they act on a call of a shape
WithOpts(token, shape, md) ==
    IF shape = "stream" THEN StreamInterceptor(token, md)
    ELSE UnaryInterceptor(token, md)

(***************************************************************************)
(* The handlers' loops.                                                    *)
(***************************************************************************)
\* shouldReturn: *name is dereferenced only when the namespaces are equal
shouldReturn(spec, name, namespace) ==
    IF spec.namespace = namespace /\ name = NilName
        THEN [panic |-> TRUE, ret |-> FALSE]
    ELSE IF spec.namespace = namespace /\ spec.id = name
        THEN [panic |-> FALSE, ret |-> TRUE]
    ELSE IF spec.namespace = namespace /\ name = ""
        THEN [panic |-> FALSE, ret |-> TRUE]
    ELSE [panic |-> FALSE, ret |-> namespace = ""]

\* the loop of ListMicroVMs, from index i with microvms collected so far
RECURSIVE ListScan(_, _, _, _, _)
ListScan(specs, name, namespace, i, microvms) ==
    IF i > Len(specs) THEN [panic |-> FALSE, microvms |-> microvms]
    ELSE LET r == shouldReturn(specs[i], name, namespace)
         IN  IF r.panic THEN [panic |-> TRUE, microvms |-> <<>>]
             ELSE ListScan(specs, name, namespace, i + 1,
                           IF r.ret THEN Append(microvms, MicroVM(specs[i], "CREATED"))
                           ELSE microvms)

\* the loop of GetMicroVM: *spec.Uid panics on a nil Uid; the last match wins
RECURSIVE GetScan(_, _, _, _)
GetScan(specs, uid, i, requestSpec) ==
    IF i > Len(specs) THEN [panic |-> FALSE, requestSpec |-> requestSpec]
    ELSE IF specs[i].uid = NilUid THEN [panic |-> TRUE, requestSpec |-> <<>>]
    ELSE GetScan(specs, uid, i + 1,
                 IF specs[i].uid = uid THEN <<specs[i]>> ELSE requestSpec)

\* the loop of DeleteMicroVM: each matching slot is overwritten with the last
\* element; *spec.Uid panics on a nil Uid, leaving the slots written so far
RECURSIVE DeleteScan(_, _, _)
DeleteScan(specs, uid, i) ==
    IF i > Len(specs) THEN [panic |-> FALSE, specs |-> specs]
    ELSE IF specs[i].uid = NilUid THEN [panic |-> TRUE, specs |-> specs]
    ELSE IF specs[i].uid = uid
        THEN DeleteScan([specs EXCEPT ![i] = specs[Len(specs)]], uid, i + 1)
    ELSE DeleteScan(specs, uid, i + 1)

\* a Load that appends to what is held
LoadAppends(specs, microvms) == specs \o microvms

\* the body of Load: s.savedSpecs = microvms
LoadResult(specs, microvms) == microvms

\* a DeleteMicroVM without the reslice
KeepLength(specs) == specs

\* s.savedSpecs = s.savedSpecs[:len(s.savedSpecs)-1], after the loop
Truncate(specs) == SubSeq(specs, 1, Len(specs) - 1)

\* a CreateMicroVM that keeps the uid a request carries
AssignUidIfUnset(spec, uid) ==
    IF spec.uid # NilUid THEN spec ELSE [spec EXCEPT !.uid = uid]

\* spec.Uid = pointer.String(uid.String()): the request's own uid is overwritten
AssignUid(spec, uid) == [spec EXCEPT !.uid = uid]

\* a request whose Microvm field is nil
NilMicrovm == [nil |-> TRUE]

\* a CreateMicroVM that appends the request's spec before it looks at the error
\* of uuid.NewV4
CreateAppendsFirst(specs, microvm, err, uid) ==
    IF err THEN [specs |-> Append(specs, microvm), res |-> "uuid_error", out |-> <<>>]
    ELSE IF microvm = NilMicrovm THEN [specs |-> specs, res |-> "panic", out |-> <<>>]
    ELSE LET spec == AssignUid(microvm, uid)
         IN  [specs |-> Append(specs, spec), res |-> "ok",
              out |-> <<MicroVM(spec, "PENDING")>>]

\* the body of CreateMicroVM on req.Microvm, with what uuid.NewV4 returned (err,
\* or uid): the store it leaves, the error (res) and the response (out)
CreateResult(specs, microvm, err, uid) ==
    IF err THEN [specs |-> specs, res |-> "uuid_error", out |-> <<>>]
    ELSE IF microvm = NilMicrovm THEN [specs |-> specs, res |-> "panic", out |-> <<>>]
    ELSE LET spec == AssignUid(microvm, uid)
         IN  [specs |-> Append(specs, spec), res |-> "ok",
              out |-> <<MicroVM(spec, "PENDING")>>]

\* a Stop that empties the store
StopDiscards(specs) == <<>>

\* what Stop leaves of savedSpecs: cleanup closes the listener and stops the
\* gRPC server, and no statement of Stop assigns savedSpecs
StopResult(specs) == specs

\* the body of GetMicroVM: the error (res) and the response (out)
GetResult(specs, uid) ==
    LET g == GetScan(specs, uid, 1, <<>>)
    IN  IF g.panic THEN [res |-> "panic", out |-> <<>>]
        ELSE IF g.requestSpec = <<>> THEN [res |-> "not_found", out |-> <<>>]
        ELSE [res |-> "ok", out |-> <<MicroVM(g.requestSpec[1], "CREATED")>>]

\* a ListMicroVMs that returns the newest match first
ListResultNewestFirst(specs, name, namespace) ==
    LET l == ListScan(specs, name, namespace, 1, <<>>)
    IN  IF l.panic THEN [res |-> "panic", out |-> <<>>]
        ELSE [res |-> "ok",
              out |-> [i \in 1..Len(l.microvms) |-> l.microvms[Len(l.microvms) + 1 - i]]]

\* the body of ListMicroVMs
ListResult(specs, name, namespace) ==
    LET l == ListScan(specs, name, namespace, 1, <<>>)
    IN  IF l.panic THEN [res |-> "panic", out |-> <<>>]
        ELSE [res |-> "ok", out |-> l.microvms]

\* the body of DeleteMicroVM: the store it leaves and the error
DeleteResult(specs, uid) ==
    IF Len(specs) > 0
      THEN LET d == DeleteScan(specs, uid, 1)
           IN  IF d.panic THEN [specs |-> d.specs, res |-> "panic"]
               ELSE [specs |-> Truncate(d.specs), res |-> "ok"]
      ELSE [specs |-> specs, res |-> "ok"]

(***************************************************************************)
(* State.                                                                  *)
(***************************************************************************)
VARIABLES
    savedSpecs,   \* FakeServer.savedSpecs
    serving,      \* a gRPC server started by start() and not stopped
    authToken,    \* the token the running server's options were built from
    issued,       \* how many uids uuid.NewV4 has returned
    pc,           \* "idle", "handler" (a call passed the interceptor), "crashed"
    call,         \* the call in the interceptor's hands or the handler's: its
                  \* metadata and its shape
    last,         \* the step just taken and its outcome
    arrays,       \* the backing arrays append has allocated for savedSpecs
    slice,        \* the slice header in s.savedSpecs: its array and its length
    goroutine,    \* the goroutines of two CreateMicroVM calls in flight together
    base          \* the collection when those two calls came in

vars == <<savedSpecs, serving, authToken, issued, pc, call, last, arrays, slice, goroutine, base>>

\* what the concurrent calls work on; the one-call-at-a-time operations leave
\* it alone
raceVars == <<arrays, slice, goroutine, base>>

\* the goroutines serving the two calls
Goroutines == {1, 2}

\* the nil slice of a new FakeServer
NilSlice == [array |-> 0, len |-> 0]

\* a goroutine on which no call has started its work
NoG == [pc |-> "start", req |-> NilMicrovm, spec |-> NilMicrovm, h |-> NilSlice,
        new |-> NilSlice, res |-> "", out |-> <<>>]

NoCall == [md |-> NoMD, shape |-> ""]
NoSpec == MicroVMSpec("", "", NilUid, "")

\* how many held records carry uid
Held(specs, uid) == Cardinality({i \in 1..Len(specs) : specs[i].uid = uid})

\* the record of a step: the operation, its arguments (microvms is Load's), the
\* error (res) and the response (out), with the store's length and the matches
\* of uid before it ran
Outcome(op, uid, name, namespace, spec, res, out) ==
    [op |-> op, uid |-> uid, name |-> name, namespace |-> namespace, spec |-> spec,
     microvms |-> <<>>, res |-> res, out |-> out,
     len |-> Len(savedSpecs), held |-> Held(savedSpecs, uid)]

\* the outcome of a step that ran no handler to its end
Plain(op, res) ==
    [op |-> op, uid |-> NilUid, name |-> NilName, namespace |-> "", spec |-> NoSpec,
     microvms |-> <<>>, res |-> res, out |-> <<>>, len |-> 0, held |-> 0]

\* where a handler leaves the process
After(res) == IF res = "panic" THEN "crashed" ELSE "idle"

\* New(): an empty FakeServer, not started
Init ==
    /\ savedSpecs = <<>>
    /\ serving = FALSE
    /\ authToken = <<>>
    /\ issued = 0
    /\ pc = "idle"
    /\ call = NoCall
    /\ last = Plain("New", "ok")
    /\ arrays = <<>>
    /\ slice = NilSlice
    /\ goroutine = [t \in Goroutines |-> NoG]
    /\ base = <<>>

(***************************************************************************)
(* Operations.                                                             *)
(***************************************************************************)
\* Start / StartBuf: serve with the options WithOpts(token) builds
Start ==
    /\ pc = "idle"
    /\ ~serving
    /\ \E token \in Secrets : authToken' = token
    /\ serving' = TRUE
    /\ last' = Plain("Start", "ok")
    /\ call' = NoCall
    /\ UNCHANGED <<savedSpecs, issued, pc>>
    /\ UNCHANGED raceVars

\* Stop: close the listener and stop the gRPC server; savedSpecs is not touched
Stop ==
    /\ pc = "idle"
    /\ serving
    /\ serving' = FALSE
    /\ authToken' = <<>>
    /\ savedSpecs' = StopResult(savedSpecs)
    /\ last' = Plain("Stop", "ok")
    /\ call' = NoCall
    /\ UNCHANGED <<issued, pc>>
    /\ UNCHANGED raceVars

\* Load: s.savedSpecs = microvms
Load ==
    /\ pc = "idle"
    /\ \E microvms \in SeqsUpTo(LoadSpecs(issued), MaxSpecs) :
        /\ savedSpecs' = LoadResult(savedSpecs, microvms)
        /\ last' = [Plain("Load", "ok") EXCEPT !.microvms = microvms,
                                               !.len = Len(savedSpecs)]
    /\ call' = NoCall
    /\ UNCHANGED <<serving, authToken, issued, pc>>
    /\ UNCHANGED raceVars

\* the interceptor of the running server, on a call's metadata: the call goes
\* on to its handler, or ends with the interceptor's error
Intercept ==
    /\ pc = "idle"
    /\ serving
    /\ \E md \in Metadata, shape \in Shapes :
        LET gate == WithOpts(authToken, shape, md)
        IN  /\ call' = [md |-> md, shape |-> shape]
            /\ pc' = IF gate = "pass" THEN "handler" ELSE "idle"
            /\ last' = Plain("Intercept", gate)
    /\ UNCHANGED <<savedSpecs, serving, authToken, issued>>
    /\ UNCHANGED raceVars

\* CreateMicroVM
CreateMicroVM ==
    /\ pc = "handler"
    /\ call.shape = "unary"
    /\ \/ \* uuid.NewV4 fails: the error is returned
          /\ \E req \in RequestSpecs \cup {NilMicrovm} :
              LET c == CreateResult(savedSpecs, req, TRUE, NilUid)
              IN  /\ savedSpecs' = c.specs
                  /\ last' = [Plain("Create", c.res) EXCEPT !.out = c.out]
                  /\ pc' = After(c.res)
          /\ UNCHANGED issued
       \/ \* req.Microvm is nil: spec.Uid = ... panics after the uuid was drawn
          /\ issued < MaxIssued
          /\ LET c == CreateResult(savedSpecs, NilMicrovm, FALSE, issued + 1)
             IN  /\ savedSpecs' = c.specs
                 /\ last' = [Plain("Create", c.res) EXCEPT !.out = c.out]
                 /\ pc' = After(c.res)
          /\ issued' = issued + 1
       \/ /\ issued < MaxIssued
          /\ Len(savedSpecs) < MaxSpecs
          /\ \E req \in RequestSpecs :
              LET uid == issued + 1
                  c == CreateResult(savedSpecs, req, FALSE, uid)
              IN  /\ issued' = uid
                  /\ savedSpecs' = c.specs
                  /\ last' = Outcome("Create", uid, NilName, "", req, c.res, c.out)
                  /\ pc' = After(c.res)
    /\ call' = NoCall
    /\ UNCHANGED <<serving, authToken>>
    /\ UNCHANGED raceVars

\* DeleteMicroVM
DeleteMicroVM ==
    /\ pc = "handler"
    /\ call.shape = "unary"
    /\ \E uid \in KnownUids(issued) :
        LET d == DeleteResult(savedSpecs, uid)
        IN  /\ savedSpecs' = d.specs
            /\ pc' = After(d.res)
            /\ last' = Outcome("Delete", uid, NilName, "", NoSpec, d.res, <<>>)
    /\ call' = NoCall
    /\ UNCHANGED <<serving, authToken, issued>>
    /\ UNCHANGED raceVars

\* GetMicroVM
GetMicroVM ==
    /\ pc = "handler"
    /\ call.shape = "unary"
    /\ \E uid \in KnownUids(issued) :
        LET g == GetResult(savedSpecs, uid)
        IN  /\ pc' = After(g.res)
            /\ last' = Outcome("Get", uid, NilName, "", NoSpec, g.res, g.out)
    /\ call' = NoCall
    /\ UNCHANGED <<savedSpecs, serving, authToken, issued>>
    /\ UNCHANGED raceVars

\* ListMicroVMs
ListMicroVMs ==
    /\ pc = "handler"
    /\ call.shape = "unary"
    /\ \E name \in QueryNames, namespace \in Namespaces :
        LET l == ListResult(savedSpecs, name, namespace)
        IN  /\ pc' = After(l.res)
            /\ last' = Outcome("List", NilUid, name, namespace, NoSpec, l.res, l.out)
    /\ call' = NoCall
    /\ UNCHANGED <<savedSpecs, serving, authToken, issued>>
    /\ UNCHANGED raceVars

\* ListMicroVMsStream: returns nil at once, sending nothing
ListMicroVMsStream ==
    /\ pc = "handler"
    /\ call.shape = "stream"
    /\ last' = Plain("ListStream", "ok")
    /\ pc' = "idle"
    /\ call' = NoCall
    /\ UNCHANGED <<savedSpecs, serving, authToken, issued>>
    /\ UNCHANGED raceVars

Next ==
    \/ Start
    \/ Stop
    \/ Load
    \/ Intercept
    \/ CreateMicroVM
    \/ DeleteMicroVM
    \/ GetMicroVM
    \/ ListMicroVMs
    \/ ListMicroVMsStream

Spec == Init /\ [][Next]_vars

\* the server as its RPC clients drive it: no Load
NextNoLoad ==
    \/ Start
    \/ Stop
    \/ Intercept
    \/ CreateMicroVM
    \/ DeleteMicroVM
    \/ GetMicroVM
    \/ ListMicroVMs
    \/ ListMicroVMsStream

SpecNoLoad == Init /\ [][NextNoLoad]_vars

(***************************************************************************)
(* Two CreateMicroVM calls served together.  grpc-go runs each call on its *)
(* own goroutine and FakeServer has no lock, so the statement              *)
(* s.savedSpecs = append(s.savedSpecs, spec) of one call interleaves with  *)
(* the other's in its three memory steps: the read of the slice header,    *)
(* the write of the new slot (into the same array if it has room, else     *)
(* into a grown copy), and the write-back of the new header.               *)
(***************************************************************************)
\* the records a slice header shows in the arrays
View(sl, arrs) == IF sl.array = 0 THEN <<>> ELSE SubSeq(arrs[sl.array], 1, sl.len)

\* cap() of a slice header
Cap(sl, arrs) == IF sl.array = 0 THEN 0 ELSE Len(arrs[sl.array])

\* an append whose grown array does not take over the old elements
appendWithoutCopy(arrs, h, spec) ==
    IF h.len < Cap(h, arrs)
      THEN [arrays |-> [arrs EXCEPT ![h.array][h.len + 1] = spec],
            slice |-> [array |-> h.array, len |-> h.len + 1]]
      ELSE LET newcap == IF Cap(h, arrs) = 0 THEN 1 ELSE 2 * Cap(h, arrs)
               grown == [i \in 1..newcap |-> IF i = 1 THEN spec ELSE NilMicrovm]
           IN  [arrays |-> Append(arrs, grown),
                slice |-> [array |-> Len(arrs) + 1, len |-> 1]]

\* append(h, spec) on the header h a goroutine has read: the slot after the
\* last is written in place when the array has room, else in a new array of
\* twice the capacity that starts as a copy; the arrays it leaves and the
\* header it returns
appendSpec(arrs, h, spec) ==
    IF h.len < Cap(h, arrs)
      THEN [arrays |-> [arrs EXCEPT ![h.array][h.len + 1] = spec],
            slice |-> [array |-> h.array, len |-> h.len + 1]]
      ELSE LET newcap == IF Cap(h, arrs) = 0 THEN 1 ELSE 2 * Cap(h, arrs)
               grown == [i \in 1..newcap |->
                           IF i <= h.len THEN arrs[h.array][i]
                           ELSE IF i = h.len + 1 THEN spec
                           ELSE NilMicrovm]
           IN  [arrays |-> Append(arrs, grown),
                slice |-> [array |-> Len(arrs) + 1, len |-> h.len + 1]]

\* the record the first Create of a server leaves, and the second
FirstSpec == MicroVMSpec("vm1", "ns1", 1, "p1")
SecondSpec == MicroVMSpec("vm2", "ns1", 2, "p2")

\* the stores the two calls can come upon: that of a new server; that after
\* one Create; that after two Creates and the Delete of the second, whose
\* array keeps a free slot
RaceStores ==
    { [arrays |-> <<>>, slice |-> NilSlice, issued |-> 0],
      [arrays |-> << <<FirstSpec>> >>, slice |-> [array |-> 1, len |-> 1], issued |-> 1],
      [arrays |-> << <<FirstSpec, SecondSpec>> >>, slice |-> [array |-> 1, len |-> 1],
       issued |-> 2] }

\* a server without a secret, with two CreateMicroVM calls past the interceptor
InitRace ==
    /\ \E st \in RaceStores :
        /\ arrays = st.arrays
        /\ slice = st.slice
        /\ issued = st.issued
        /\ savedSpecs = View(st.slice, st.arrays)
        /\ base = View(st.slice, st.arrays)
    /\ goroutine = [t \in Goroutines |-> NoG]
    /\ serving = TRUE
    /\ authToken = <<>>
    /\ pc = "handler"
    /\ call = [md |-> NoMD, shape |-> "unary"]
    /\ last = Plain("Intercept", "pass")

\* CreateMicroVM up to spec.Uid = ...: the uuid is drawn and set
CreateUid(t) ==
    /\ pc = "handler"
    /\ goroutine[t].pc = "start"
    /\ \/ \* uuid.NewV4 fails: the call returns the error
          /\ \E req \in RequestSpecs \cup {NilMicrovm} :
              LET c == CreateResult(savedSpecs, req, TRUE, NilUid)
              IN  goroutine' = [goroutine EXCEPT ![t] = [@ EXCEPT !.pc = "done", !.req = req,
                                                  !.res = c.res, !.out = c.out]]
          /\ UNCHANGED <<issued, pc>>
       \/ \* req.Microvm is nil: the panic ends the process, both calls with it
          /\ issued' = issued + 1
          /\ pc' = "crashed"
          /\ goroutine' = [goroutine EXCEPT ![t] = [@ EXCEPT !.pc = "done", !.res = "panic"]]
       \/ /\ \E req \in RequestSpecs :
              goroutine' = [goroutine EXCEPT ![t] = [@ EXCEPT !.pc = "read", !.req = req,
                                              !.spec = AssignUid(req, issued + 1)]]
          /\ issued' = issued + 1
          /\ UNCHANGED pc
    /\ UNCHANGED <<savedSpecs, serving, authToken, call, last, arrays, slice, base>>

\* the read of s.savedSpecs, the argument of append
CreateReadSlice(t) ==
    /\ pc = "handler"
    /\ goroutine[t].pc = "read"
    /\ goroutine' = [goroutine EXCEPT ![t] = [@ EXCEPT !.pc = "slot", !.h = slice]]
    /\ UNCHANGED <<savedSpecs, serving, authToken, issued, pc, call, last, arrays,
                   slice, base>>

\* append writes the new slot, in place or in a grown copy
CreateWriteSlot(t) ==
    /\ pc = "handler"
    /\ goroutine[t].pc = "slot"
    /\ LET a == appendSpec(arrays, goroutine[t].h, goroutine[t].spec)
       IN  /\ arrays' = a.arrays
           /\ goroutine' = [goroutine EXCEPT ![t] = [@ EXCEPT !.pc = "back", !.new = a.slice]]
           /\ savedSpecs' = View(slice, a.arrays)
    /\ UNCHANGED <<serving, authToken, issued, pc, call, last, slice, base>>

\* s.savedSpecs = ... : the header append returned is written back, and the
\* call returns its response
CreateWriteBack(t) ==
    /\ pc = "handler"
    /\ goroutine[t].pc = "back"
    /\ slice' = goroutine[t].new
    /\ savedSpecs' = View(goroutine[t].new, arrays)
    /\ goroutine' = [goroutine EXCEPT ![t] = [@ EXCEPT !.pc = "done", !.res = "ok",
                                       !.out = <<MicroVM(goroutine[t].spec, "PENDING")>>]]
    /\ UNCHANGED <<serving, authToken, issued, pc, call, last, arrays, base>>

NextRace ==
    \/ \E t \in Goroutines : CreateUid(t)
    \/ \E t \in Goroutines : CreateReadSlice(t)
    \/ \E t \in Goroutines : CreateWriteSlot(t)
    \/ \E t \in Goroutines : CreateWriteBack(t)

SpecRace == InitRace /\ [][NextRace]_vars

(***************************************************************************)
(* Properties.                                                             *)
(***************************************************************************)
\* every held record carries a uid
AllUidsSet(specs) == \A i \in 1..Len(specs) : specs[i].uid # NilUid

\* the records of a response, as a set
Shown(out) == {out[i] : i \in 1..Len(out)}

\* the records of specs that satisfy Want, as a List response shows them
CreatedOf(specs, Want(_)) ==
    {MicroVM(specs[i], "CREATED") : i \in {k \in 1..Len(specs) : Want(specs[k])}}

\* C1: Delete(uid) when no held record has that uid leaves the collection
\* unchanged and returns without error, in every collection state.  Stated
\* here of the stores whose records all carry a uid.
C1_DeleteAbsentIsNoOp ==
    [][(last'.op = "Delete" /\ last'.held = 0 /\ AllUidsSet(savedSpecs))
         => (savedSpecs' = savedSpecs /\ last'.res = "ok")]_vars

\* C2: right after a Create that returned uid u, Get(u) succeeds and returns
\* the request's id, namespace and payload under uid u with status CREATED.
C2_CreateThenGet ==
    (last.op = "Create" /\ last.res = "ok")
        => GetResult(savedSpecs, last.uid)
             = [res |-> "ok",
                out |-> <<MicroVM(MicroVMSpec(last.spec.id, last.spec.namespace,
                                              last.uid, last.spec.payload), "CREATED")>>]

\* C2 on the stores whose records all carry a uid
C2_CreateThenGetUidsSet ==
    AllUidsSet(savedSpecs) => C2_CreateThenGet

\* C3: Delete(u) of a uid held by exactly one record removes it: the call
\* returns, no held record has uid u afterwards, and a Get(u) that follows is
\* not-found.
C3_DeleteRemoves ==
    [][(last'.op = "Delete" /\ last'.held = 1)
         => /\ last'.res = "ok"
            /\ Held(savedSpecs', last'.uid) = 0
            /\ GetResult(savedSpecs', last'.uid).res = "not_found"]_vars

\* C3 on the stores whose records all carry a uid: Delete removes u, and until
\* a Create or a Load no step makes a uid held again, every Get of it is
\* not-found and no List shows it
C3_DeleteRemovesUidsSet ==
    [][AllUidsSet(savedSpecs) =>
       /\ (last'.op = "Delete" /\ last'.held = 1)
            => (last'.res = "ok" /\ Held(savedSpecs', last'.uid) = 0)
       /\ \A u \in KnownUids(MaxIssued) :
            (Held(savedSpecs, u) = 0 /\ last'.op \notin {"Create", "Load"})
                => /\ Held(savedSpecs', u) = 0
                   /\ (last'.op = "Get" /\ last'.uid = u) => last'.res = "not_found"
                   /\ last'.op = "List"
                        => \A i \in 1..Len(last'.out) : last'.out[i].spec.uid # u]_vars

\* C4: without Load, no two held records share a uid, and every Create gives
\* its record a uid that no held record had, whatever uid the request carried.
C4_UidsUnique ==
    /\ \A i, j \in 1..Len(savedSpecs) :
         i # j => savedSpecs[i].uid # savedSpecs[j].uid
    /\ (last.op = "Create" /\ last.res = "ok")
         => /\ last.held = 0
            /\ last.out[1].spec.uid = last.uid
            /\ savedSpecs[Len(savedSpecs)].uid = last.uid

\* C4's case: a second record was created from a request that carried a uid
C4_Witness ==
    /\ last.op = "Create" /\ last.res = "ok"
    /\ last.spec.uid = ForeignUid
    /\ Len(savedSpecs) = 2

\* C5: List with an empty namespace returns every held record, each CREATED,
\* whatever the name is (set, empty or unset) and whatever the records'
\* namespaces are.
C5_ListAll ==
    (last.op = "List" /\ last.namespace = "")
        => /\ last.res = "ok"
           /\ Len(last.out) = Len(savedSpecs)
           /\ Shown(last.out) = CreatedOf(savedSpecs, LAMBDA r : TRUE)

\* a record List is to return for a non-empty namespace
Matches(r, name, namespace) ==
    r.namespace = namespace /\ (name \in {NilName, ""} \/ r.id = name)

\* C6: List with a non-empty namespace returns exactly the held records of
\* that namespace whose id is the name, or all of the namespace when the name
\* is unset or empty, and completes for every name.
C6_ListFiltered ==
    (last.op = "List" /\ last.namespace # "")
        => /\ last.res = "ok"
           /\ Shown(last.out)
                = CreatedOf(savedSpecs, LAMBDA r : Matches(r, last.name, last.namespace))

\* C6 for the requests that set a name (possibly empty)
C6_ListFilteredNameSet ==
    last.name # NilName => C6_ListFiltered

\* C7: Get(uid) when no held record has that uid fails with not-found and
\* returns no record, in every collection state; Delete never fails with
\* not-found.
C7_GetAbsentNotFound ==
    /\ (last.op = "Get" /\ last.held = 0)
         => (last.res = "not_found" /\ last.out = <<>>)
    /\ last.op = "Delete" => last.res # "not_found"

\* C7 on the stores whose records all carry a uid
C7_GetAbsentNotFoundUidsSet ==
    AllUidsSet(savedSpecs) => C7_GetAbsentNotFound

\* a call's metadata carries a credential under the basic scheme
CarriesBasic(md) == md.kind = "pair" /\ EqualFold(md.scheme, "basic")

\* C8: with a secret configured, a call that carries a credential under the
\* basic scheme passes the interceptor iff the credential is the base64
\* encoding of the secret, and is otherwise (the raw secret included)
\* rejected as Unauthenticated; only a call that passed is with a handler.
C8_GateAcceptsEncodedSecret ==
    authToken # <<>> =>
        /\ (last.op = "Intercept" /\ CarriesBasic(call.md))
             => IF call.md.token = EncodeToString(authToken)
                  THEN last.res = "pass" /\ pc = "handler"
                  ELSE last.res = "unauthenticated" /\ pc = "idle"
        /\ (last.op = "Intercept" /\ CarriesBasic(call.md) /\ call.md.token = authToken)
             => last.res = "unauthenticated"
        /\ pc = "handler"
             => (CarriesBasic(call.md) /\ call.md.token = EncodeToString(authToken))

\* C8's case: under the secret "ab" a call carrying "YWI=" is with its handler
C8_Witness ==
    /\ authToken = <<97, 98>>
    /\ call.md = SchemeMD("basic", <<89, 87, 73, 61>>)
    /\ call.shape = "unary"
    /\ last.op = "Intercept"
    /\ pc = "handler"

\* C9 as claimed: with a secret configured, a call without the credential
\* field fails as Unauthenticated, like a wrong credential, and reaches no
\* handler.
C9_MissingIsUnauthenticated ==
    (authToken # <<>> /\ last.op = "Intercept" /\ call.md.kind = "absent")
        => (last.res = "unauthenticated" /\ pc = "idle")

\* C9, amended: with a secret configured, a call without the credential
\* field fails with the header-extraction error, a plain error and not the
\* Unauthenticated status of a wrong credential, and reaches no handler.
C9_MissingIsExtractError ==
    /\ (authToken # <<>> /\ last.op = "Intercept" /\ call.md.kind = "absent")
         => (last.res = "extract_error" /\ pc = "idle")
    /\ (authToken # <<>> /\ pc = "handler") => call.md.kind # "absent"

\* C9's case: a server with a secret has just refused a call without the field
C9_Witness ==
    /\ authToken # <<>>
    /\ last.op = "Intercept"
    /\ call.md = NoMD
    /\ last.res # "pass"

\* C10: Load replaces the collection with exactly its arguments, whatever was
\* held; Load() leaves the store empty, and List("", "") then returns nothing.
C10_LoadReplaces ==
    last.op = "Load" =>
        /\ savedSpecs = last.microvms
        /\ last.microvms = <<>>
             => ListResult(savedSpecs, "", "") = [res |-> "ok", out |-> <<>>]

\* C10's case: Load() with no arguments on a store that held records
C10_Witness ==
    /\ last.op = "Load"
    /\ last.microvms = <<>>
    /\ last.len > 0

\* C11: with no secret configured there is no credential check: every call,
\* whatever its metadata carries or lacks, goes on to its handler, and none is
\* refused.
C11_NoSecretNoCheck ==
    (serving /\ authToken = <<>>) =>
        /\ last.op = "Intercept" => (last.res = "pass" /\ pc = "handler")
        /\ \A md \in Metadata, shape \in Shapes : WithOpts(authToken, shape, md) = "pass"
        /\ last.res \notin {"unauthenticated", "extract_error"}

\* C11's case: a server without a secret passed a call that has no credential
C11_Witness ==
    /\ serving /\ authToken = <<>>
    /\ last.op = "Intercept"
    /\ call.md = NoMD
    /\ pc = "handler"

\* C12: the gate treats the two call shapes alike: whatever the secret and the
\* metadata, a streaming call gets from the interceptor what a unary call with
\* the same metadata gets, and the other way round.
C12_ShapesAlike ==
    /\ (last.op = "Intercept" /\ call.shape = "stream")
         => last.res = UnaryInterceptor(authToken, call.md)
    /\ (last.op = "Intercept" /\ call.shape = "unary")
         => last.res = StreamInterceptor(authToken, call.md)
    /\ (pc = "handler" /\ call.shape = "stream")
         => UnaryInterceptor(authToken, call.md) = "pass"

\* C12's case: with a secret set, a streaming call with a wrong credential was
\* refused as a unary one is
C12_Witness ==
    /\ authToken # <<>>
    /\ last.op = "Intercept"
    /\ call.shape = "stream"
    /\ last.res = "unauthenticated"

\* C13: when uuid.NewV4 fails in a Create, the call ends with that error and no
\* response, draws no further uid, and leaves the collection as it was: nothing
\* is appended.
C13_UuidFailureAppendsNothing ==
    [][(last'.op = "Create" /\ last'.res = "uuid_error")
         => /\ savedSpecs' = savedSpecs
            /\ last'.out = <<>>
            /\ issued' = issued
            /\ pc' = "idle"]_vars

\* C13's case: a Create failed on the uuid while a record was held
C13_Witness ==
    /\ last.op = "Create"
    /\ last.res = "uuid_error"
    /\ Len(savedSpecs) = 1

\* how many times a record is held
Copies(specs, r) == Cardinality({i \in 1..Len(specs) : specs[i] = r})

\* the records held
Records(specs) == {specs[i] : i \in 1..Len(specs)}

\* C14: when several held records carry the uid passed to Delete, the one call
\* removes all of them: no held record has that uid afterwards, and every
\* record with another uid is held as many times as before.  (Stated for
\* stores in which every record has a uid, so that the scan cannot panic.)
C14_DeleteRemovesAllMatches ==
    [][(last'.op = "Delete" /\ last'.held >= 2 /\ AllUidsSet(savedSpecs))
         => /\ last'.res = "ok"
            /\ Held(savedSpecs', last'.uid) = 0
            /\ \A r \in Records(savedSpecs) \cup Records(savedSpecs') :
                 r.uid # last'.uid => Copies(savedSpecs', r) = Copies(savedSpecs, r)]_vars

\* both calls have returned success
BothCreated == \A t \in Goroutines : goroutine[t].pc = "done" /\ goroutine[t].res = "ok"

\* the collection after the two calls run one after the other, t first
Sequential(t, u) ==
    CreateResult(CreateResult(base, goroutine[t].req, FALSE, goroutine[t].spec.uid).specs,
                 goroutine[u].req, FALSE, goroutine[u].spec.uid).specs

\* C15: the collection is not synchronized, so two concurrent Creates can lose
\* a record: whenever both calls read the slice before either wrote it back
\* and both return success, the collection is the old one plus just one of the
\* two created records, which is the result of neither sequential order.
C15_ConcurrentCreatesLoseRecord ==
    (BothCreated /\ goroutine[1].h = goroutine[2].h) =>
        /\ savedSpecs \in {Append(base, goroutine[1].spec), Append(base, goroutine[2].spec)}
        /\ savedSpecs \notin {Sequential(1, 2), Sequential(2, 1)}
        /\ \A t \in Goroutines : goroutine[t].out = <<MicroVM(goroutine[t].spec, "PENDING")>>

\* C15's case: both calls returned success with their records, and the
\* collection, which held a record before, now lacks the first call's record
C15_Witness ==
    /\ BothCreated
    /\ Len(base) = 1
    /\ Len(savedSpecs) = 2
    /\ Copies(savedSpecs, goroutine[1].spec) = 0
    /\ Copies(savedSpecs, goroutine[2].spec) = 1

\* C16: the collection is discarded when the server stops: after Stop the
\* instance holds no records, and the Start that follows serves an empty
\* store, a List with empty namespace returning nothing.
C16_StopDiscardsStore ==
    /\ last.op = "Stop" => savedSpecs = <<>>
    /\ last.op = "Start" => ListResult(savedSpecs, "", "").out = <<>>

\* C16 as the code has it: Stop leaves the collection as it is, and so does the
\* Start that follows; the records are served again.
C16_StopKeepsStore ==
    [][(last'.op \in {"Stop", "Start"}) => savedSpecs' = savedSpecs]_vars

\* C16's case: a server was started again after a Stop and holds a record
\* created before the Stop, which List with empty namespace returns
C16_Witness ==
    /\ last.op = "Start"
    /\ Len(savedSpecs) > 0
    /\ ListResult(savedSpecs, "", "").out # <<>>

\* C17: without Load, a record a Create returned with uid u stays retrievable
\* by Get(u) until a Delete with argument u is called: no other step, and no
\* Delete of another uid, takes it away.
C17_PersistsUntilDeleted ==
    [][\A u \in IssuedUids(issued) :
         (GetResult(savedSpecs, u).res = "ok" /\ ~(last'.op = "Delete" /\ last'.uid = u))
            => GetResult(savedSpecs', u).res = "ok"]_vars

\* every held record has a uid, and no two have the same
UidsDistinct(specs) ==
    /\ AllUidsSet(specs)
    /\ \A i, j \in 1..Len(specs) : specs[i].uid = specs[j].uid => i = j

CorrectCredential(md, token) == CarriesBasic(md) /\ md.token = EncodeToString(token)

\* C19: with a secret configured, a call the interceptor rejects ends there,
\* with the collection as it was, and the collection changes only in
\* CreateMicroVM and DeleteMicroVM steps of calls that carried the correct
\* credential; no handler runs for any other call.  (Load is a method of the
\* Go value, not a call through the interceptor.)
C19_RejectedCallsNoEffect ==
    [][(serving /\ authToken # <<>>)
         => /\ (last'.op = "Intercept" /\ last'.res # "pass")
                 => (savedSpecs' = savedSpecs /\ pc' = "idle")
            /\ (savedSpecs' # savedSpecs /\ last'.op # "Load")
                 => /\ last'.op \in {"Create", "Delete"}
                    /\ pc = "handler"
                    /\ CorrectCredential(call.md, authToken)
            /\ pc = "handler" => CorrectCredential(call.md, authToken)]_vars

\* C19's case: with a secret set and a record held, a call with a wrong
\* credential was rejected and the record is still held
C19_Witness ==
    /\ serving /\ authToken # <<>>
    /\ last.op = "Intercept"
    /\ last.res = "unauthenticated"
    /\ pc = "idle"
    /\ Len(savedSpecs) > 0

\* the records of specs that out shows, as ListMicroVMs returns them, in the
\* order of specs
InStoreOrder(specs, out) ==
    LET kept == SelectSeq(specs, LAMBDA r : MicroVM(r, "CREATED") \in Shown(out))
    IN  [i \in 1..Len(kept) |-> MicroVM(kept[i], "CREATED")]

\* C20: the read operations are pure: a Get, List or ListStream step, whether
\* it succeeds or fails, leaves the collection as it was in content, length
\* and order; and what List returns is in the order of the collection.
C20_ReadsArePure ==
    [][/\ (last'.op \in {"Get", "List", "ListStream"}) => savedSpecs' = savedSpecs
       /\ (last'.op = "List" /\ last'.res = "ok")
            => last'.out = InStoreOrder(savedSpecs, last'.out)]_vars

\* C20's case: a List returned two different records of a store that is as it
\* was before the call
C20_Witness ==
    /\ last.op = "List"
    /\ last.res = "ok"
    /\ Len(last.out) = 2
    /\ last.out[1] # last.out[2]
    /\ Len(savedSpecs) = 2

====
